---- MODULE Spec2Model ----
(***************************************************************************)
(* A model of the prostate-MRI preprocessing code of data_helpers.py and    *)
(* crop_kgh.py:                                                            *)
(*   - write_cropped_images_train_and_folds, the fold partitioner          *)
(*     (specifications Spec and SpecScenario);                             *)
(*   - crop_from_center, the window slicing (specification SpecCrop);      *)
(*   - image_cropper, the patch dataset builder (SpecCropper);             *)
(*   - ProstateImages, the sample provider (specification SpecDataset);    *)
(*   - k_fold_cross_validation and train_model (specification SpecTrain);  *)
(*   - rotated_crop as image_cropper and create_kgh_patient_crops call it  *)
(*     (specification SpecRotate);                                         *)
(*   - create_bval_kgh_patients of crop_kgh.py (specification SpecKgh).    *)
(* Patch indices, patient indices and mapping keys are 0-based as in the   *)
(* code; TLA+ sequences are 1-based, so patient_images[i] of the code is   *)
(* patient_images[i + 1] here.                                              *)
(***************************************************************************)
EXTENDS Integers, Sequences, FiniteSets, TLC

VARIABLES
    cropped_images,      \* dict of image_cropper, in insertion order
    num_crops,           \* parameter num_crops
    num_folds,           \* parameter num_folds
    fold_fraction,       \* parameter fold_fraction, as num/den
    pc,                  \* position in write_cropped_images_train_and_folds
    patient_images,      \* line 149-150
    k,                   \* loop counter of line 166
    num_each_class_fold, \* line 162
    fold_set,            \* line 171-173, of the fold being drawn
    out_of_fold_set,     \* line 181-183, of the fold being drawn
    fold_key_mapping,    \* line 199-203, of the fold being drawn
    train_key_mapping,   \* line 205-209, of the fold being drawn
    fold_key_mappings,   \* line 164, 211
    train_key_mappings,  \* line 165, 212
    call,                \* arguments of one crop_from_center call
    crop,                \* its outcome
    self,                \* a ProstateImages object
    output,              \* outcome of the last method called on it
    findings_dataframe,  \* image_cropper: the rows of the findings table
    resampled_images,    \* per patient, "" when an image is blank
    train,               \* parameter train
    num_crops_per_image, \* parameter num_crops_per_image
    crop_dict,           \* the dict crops of line 242
    invalid_keys,        \* line 243
    rows_done,           \* rows of the table iterated (line 244)
    bad_findings,        \* rows so far with a wrong-size or all-zero crop
    cropper_pc,          \* position in image_cropper
    k_fold,              \* locals of k_fold_cross_validation
    train_call,          \* locals of the train_model call of the fold
    weights,             \* the weights of every model object
    train_pc,            \* position in k_fold_cross_validation
    builder,             \* the dataset builder that calls rotated_crop
    degrees,             \* its list degrees (lines 240-241, 656)
    rotated,             \* the crops of the crop number it is at
    directories,         \* create_bval_kgh_patients: the data directory
    bval,                \* the dict bval of line 9
    written,             \* the files written to the crops directory
    kgh_pc               \* directories iterated (line 11)

partVars == <<cropped_images, num_crops, num_folds, fold_fraction, pc,
              patient_images, k,
              num_each_class_fold, fold_set, out_of_fold_set,
              fold_key_mapping, train_key_mapping,
              fold_key_mappings, train_key_mappings>>
cropVars == <<call, crop>>
datasetVars == <<self, output>>
cropperVars == <<findings_dataframe, resampled_images, train,
                 num_crops_per_image, crop_dict, invalid_keys, rows_done,
                 bad_findings, cropper_pc>>
trainVars == <<k_fold, train_call, weights, train_pc>>
rotateVars == <<builder, degrees, rotated>>
kghVars == <<directories, bval, written, kgh_pc>>
vars == <<cropped_images, num_crops, num_folds, fold_fraction, pc,
          patient_images, k,
          num_each_class_fold, fold_set, out_of_fold_set,
          fold_key_mapping, train_key_mapping,
          fold_key_mappings, train_key_mappings, call, crop,
          self, output,
          findings_dataframe, resampled_images, train,
          num_crops_per_image, crop_dict, invalid_keys, rows_done,
          bad_findings, cropper_pc,
          k_fold, train_call, weights, train_pc,
          builder, degrees, rotated,
          directories, bval, written, kgh_pc>>

\* what the steps of one part of the model leave alone
othersOfPart == <<cropVars, datasetVars, cropperVars, trainVars,
                  rotateVars, kghVars>>
othersOfCrop == <<partVars, datasetVars, cropperVars, trainVars,
                  rotateVars, kghVars>>
othersOfDataset == <<partVars, cropVars, cropperVars, trainVars,
                     rotateVars, kghVars>>
othersOfCropper == <<partVars, cropVars, datasetVars, trainVars,
                     rotateVars, kghVars>>
othersOfTrain == <<partVars, cropVars, datasetVars, cropperVars,
                   rotateVars, kghVars>>
othersOfRotate == <<partVars, cropVars, datasetVars, cropperVars,
                    trainVars, kghVars>>
othersOfKgh == <<partVars, cropVars, datasetVars, cropperVars,
                 trainVars, rotateVars>>

(***************************************************************************)
(* Bounds of the model.                                                    *)
(***************************************************************************)
\* rows of the findings table: 1..MaxFindings
MaxFindings == 4
\* distinct patients in the table: at most MaxPatients
MaxPatients == 2
\* num_crops of the calls of Spec
MaxCrops == 2
\* num_folds of the calls of Spec
MaxFolds == 2
\* voxels per axis of the image cropped
MaxSize == 3
\* width, height, depth: 1..MaxWidth
MaxWidth == 3
\* i_offset, j_offset: -MaxOffset..MaxOffset
MaxOffset == 1
\* voxels of a patch read by ProstateImages
MaxVoxels == 2
\* keys of a key mapping read by ProstateImages: 0..MaxLen of them
MaxLen == 2
\* rows of the findings table given to image_cropper: 1..MaxRows
MaxRows == 2
\* epochs of a train_model call: 0..MaxEpochs
MaxEpochs == 2
\* validation samples of each class
MaxVal == 1
\* magnitudes of the degree lists given to rotated_crop
MaxDegree == 1
\* i_offset, j_offset of rotated_crop: -MaxShift..MaxShift - 1 (7 in the code)
MaxShift == 1
\* entries of the data directory of create_bval_kgh_patients: 1..MaxDirs
MaxDirs == 2
\* lines of a fiducial file: 0..MaxLines
MaxLines == 5

\* fold_fraction values tried, as exact fractions.  For every cancer count
\* the model reaches, int(f * n) in double arithmetic equals the exact
\* floor of num * n / den (0.2, 0.6 and 1.0 times 0..12 were compared).
Fractions ==
    { [num |-> 1, den |-> 5], [num |-> 3, den |-> 5], [num |-> 1, den |-> 1] }

Range(f) == { f[x] : x \in DOMAIN f }

EmptyMap == [x \in {} |-> 0]

(***************************************************************************)
(* image_cropper, train mode, every crop valid: a finding is stored under  *)
(* the key "patientID_label"; a further finding of the same patient with   *)
(* the same label is appended to the same entry.  An entry is              *)
(* [patient, marker, findings], holding findings * num_crops patches.      *)
(***************************************************************************)
RECURSIVE StoreFindings(_, _)
StoreFindings(table, crops) ==
    IF table = <<>> THEN crops
    ELSE LET row == Head(table)
             hit == { i \in 1..Len(crops) :
                        /\ crops[i].patient = row.patient_id
                        /\ crops[i].marker = row.ClinSig }
         IN  IF hit # {}
             THEN StoreFindings(Tail(table),
                    [i \in 1..Len(crops) |->
                        IF i \in hit
                        THEN [crops[i] EXCEPT !.findings = @ + 1]
                        ELSE crops[i]])
             ELSE StoreFindings(Tail(table),
                    Append(crops, [patient |-> row.patient_id,
                                   marker |-> row.ClinSig,
                                   findings |-> 1]))

FindingRows == [patient_id : 1..MaxPatients, ClinSig : {0, 1}]

\* The findings tables tried.  Patient ids are names, only their equality is
\* used, so the patients are numbered in order of first appearance.
FindingsTables ==
    { t \in UNION { [1..n -> FindingRows] : n \in 1..MaxFindings } :
        \A i \in 1..Len(t) :
            \/ t[i].patient_id = 1
            \/ \E j \in 1..(i - 1) : t[j].patient_id >= t[i].patient_id - 1 }

(***************************************************************************)
(* write_cropped_images_train_and_folds                                    *)
(***************************************************************************)

\* line 149-150: one element per patch, here the entry (key) it came from.
RECURSIVE PatientImagesOf(_, _)
PatientImagesOf(crops, c) ==
    IF crops = <<>> THEN <<>>
    ELSE [i \in 1..(Head(crops).findings * c) |->
             [patient |-> Head(crops).patient, marker |-> Head(crops).marker]]
         \o PatientImagesOf(Tail(crops), c)

\* line 158
PatientIndices == 0..((Len(patient_images) \div num_crops) - 1)

\* the test patient_images[idx * num_crops][0][-1] == '0' / '1' of lines
\* 159, 160 and 178
KeyMarker(idx) == patient_images[idx * num_crops + 1].marker

\* line 159
NonCancerPatients == { idx \in PatientIndices : KeyMarker(idx) = 0 }

\* line 160
CancerPatients == { idx \in PatientIndices : KeyMarker(idx) = 1 }

\* variant: round() to the nearest integer in place of int()
NumEachClassFoldRounded(f, n) == (2 * f.num * n + f.den) \div (2 * f.den)

\* line 162: int() truncates the product
NumEachClassFold(f, n) == (f.num * n) \div f.den

\* random.sample(population, n): the possible results, as sets (every use
\* puts the result into a set); ValueError when n exceeds the population.
SampleRaises(population, n) == n > Cardinality(population) \/ n < 0

Sample(population, n) ==
    { s \in SUBSET population : Cardinality(s) = n }

\* variant: the fold is not taken out
OutOfFoldKeepsFold(fold) == PatientIndices

\* line 175
OutOfFold(fold) == PatientIndices \ fold

\* variant: every cancer patient, in the fold or not
CancerOutOfFoldAllCancer(out_of_fold) == CancerPatients

\* line 178
CancerOutOfFold(out_of_fold) ==
    { idx \in out_of_fold : KeyMarker(idx) = 1 }

\* variant: one non-cancer patient more than cancer patients
TrainSampleSizeOneMore(cancer_out_of_fold) ==
    Cardinality(cancer_out_of_fold) + 1

\* line 179, second argument
TrainSampleSize(cancer_out_of_fold) == Cardinality(cancer_out_of_fold)

\* variant: only the first patch of every block
ImageIndicesFirstOnly(keys, c) == { key * c : key \in keys }

\* line 186-190 and 193-197
ImageIndices(keys, c) ==
    { key * c + pos : key \in keys, pos \in 0..(c - 1) }

\* Slots of the hash table behind a Python set of n elements (CPython: 8
\* slots, grown fourfold when three fifths are used).
SetSlots(n) == IF n < 5 THEN 8 ELSE IF n < 19 THEN 32 ELSE 128

RECURSIVE SlotOrder(_, _)
SlotOrder(S, slots) ==
    IF S = {} THEN <<>>
    ELSE LET first == CHOOSE v \in S : \A w \in S :
                        \/ v % slots < w % slots
                        \/ v % slots = w % slots /\ v <= w
         IN  <<first>> \o SlotOrder(S \ {first}, slots)

\* Iteration over a set of ints (lines 201 and 207): in the order of the
\* slots of its hash table, an int v in slot v mod slots (ints that share a
\* slot are taken in increasing order).  No property below depends on it.
SetOrder(S) == SlotOrder(S, SetSlots(Cardinality(S)))

\* variant: every key holds the first index
KeyMappingStuckKey(order) ==
    [key \in 0..(Len(order) - 1) |-> order[1]]

\* line 199-203 and 205-209
KeyMapping(order) ==
    [key \in 0..(Len(order) - 1) |-> order[key + 1]]

InitCrop0 ==
    /\ call = [size |-> <<1, 1, 1>>, ijk |-> <<0, 0, 0>>,
               dims |-> <<1, 1, 1>>, offset |-> <<0, 0>>]
    /\ crop = [state |-> "idle"]

InitDataset0 ==
    /\ self = [constructed |-> FALSE]
    /\ output = [op |-> "none"]

InitCropper0 ==
    /\ findings_dataframe = <<>>
    /\ resampled_images = <<>>
    /\ train = TRUE
    /\ num_crops_per_image = 1
    /\ crop_dict = <<>>
    /\ invalid_keys = {}
    /\ rows_done = 0
    /\ bad_findings = {}
    /\ cropper_pc = "idle"

InitTrain0 ==
    /\ k_fold = [k |-> 0]
    /\ train_call = [epoch |-> 0]
    /\ weights = <<>>
    /\ train_pc = "idle"

InitRotate0 ==
    /\ builder = [name |-> "none"]
    /\ degrees = <<>>
    /\ rotated = [crop_num |-> 0, crop |-> <<>>]

InitKgh0 ==
    /\ directories = <<>>
    /\ bval = EmptyMap
    /\ written = EmptyMap
    /\ kgh_pc = "idle"

InitPart(crops, c, folds, f) ==
    /\ cropped_images = crops
    /\ patient_images = <<>>
    /\ num_crops = c
    /\ num_folds = folds
    /\ fold_fraction = f
    /\ pc = "start"
    /\ k = 0
    /\ num_each_class_fold = 0
    /\ fold_set = {}
    /\ out_of_fold_set = {}
    /\ fold_key_mapping = EmptyMap
    /\ train_key_mapping = EmptyMap
    /\ fold_key_mappings = <<>>
    /\ train_key_mappings = <<>>

Init ==
    /\ \E table \in FindingsTables, f \in Fractions :
          InitPart(StoreFindings(table, <<>>), MaxCrops, MaxFolds, f)
    /\ InitCrop0
    /\ InitDataset0
    /\ InitCropper0
    /\ InitTrain0
    /\ InitRotate0
    /\ InitKgh0

\* lines 149-165
Prepare ==
    /\ pc = "start"
    /\ UNCHANGED <<cropped_images, num_crops, num_folds, fold_fraction, k,
                   fold_set, out_of_fold_set, fold_key_mapping,
                   train_key_mapping, fold_key_mappings, train_key_mappings>>
    /\ UNCHANGED othersOfPart
    /\ patient_images' = PatientImagesOf(cropped_images, num_crops)
    /\ num_each_class_fold' =
          NumEachClassFold(fold_fraction, Cardinality(CancerPatients'))
    /\ pc' = "loop"

\* lines 168-209: the loop body up to the two appends, for every outcome of
\* the four random.sample calls that raises no error
DrawFold ==
    \E non_cancer_in_fold \in Sample(NonCancerPatients, num_each_class_fold),
       cancer_in_fold \in Sample(CancerPatients, num_each_class_fold) :
       LET fs == non_cancer_in_fold \cup cancer_in_fold
           out_of_fold == OutOfFold(fs)
           cancer_out_of_fold == CancerOutOfFold(out_of_fold)
       IN  \E non_cancer_out_of_fold \in
                 Sample(out_of_fold \ cancer_out_of_fold,
                        TrainSampleSize(cancer_out_of_fold)) :
             LET oofs == cancer_out_of_fold \cup non_cancer_out_of_fold
             IN  /\ fold_set' = fs
                 /\ out_of_fold_set' = oofs
                 /\ fold_key_mapping' = KeyMapping(
                       SetOrder(ImageIndices(fs, num_crops)))
                 /\ train_key_mapping' = KeyMapping(
                       SetOrder(ImageIndices(oofs, num_crops)))

\* lines 166-212: one pass of the loop
FoldIteration ==
    /\ pc = "loop"
    /\ k < num_folds
    /\ DrawFold
    /\ fold_key_mappings' = Append(fold_key_mappings, fold_key_mapping')
    /\ train_key_mappings' = Append(train_key_mappings, train_key_mapping')
    /\ k' = k + 1
    /\ UNCHANGED <<cropped_images, num_crops, num_folds, fold_fraction, pc,
                   patient_images, num_each_class_fold>>
    /\ UNCHANGED othersOfPart

\* lines 168, 169 and 179: random.sample raises ValueError and the call ends
FoldRaises ==
    /\ pc = "loop"
    /\ k < num_folds
    /\ \/ SampleRaises(NonCancerPatients, num_each_class_fold)
       \/ SampleRaises(CancerPatients, num_each_class_fold)
       \/ \E non_cancer_in_fold \in
                Sample(NonCancerPatients, num_each_class_fold),
             cancer_in_fold \in Sample(CancerPatients, num_each_class_fold) :
             LET out_of_fold == OutOfFold(non_cancer_in_fold \cup cancer_in_fold)
                 cancer_out_of_fold == CancerOutOfFold(out_of_fold)
             IN  SampleRaises(out_of_fold \ cancer_out_of_fold,
                              TrainSampleSize(cancer_out_of_fold))
    /\ pc' = "error"
    /\ UNCHANGED <<cropped_images, num_crops, num_folds, fold_fraction,
                   patient_images, k,
                   num_each_class_fold, fold_set, out_of_fold_set,
                   fold_key_mapping, train_key_mapping,
                   fold_key_mappings, train_key_mappings>>
    /\ UNCHANGED othersOfPart

\* line 214
Return ==
    /\ pc = "loop"
    /\ k = num_folds
    /\ pc' = "done"
    /\ UNCHANGED <<cropped_images, num_crops, num_folds, fold_fraction,
                   patient_images, k,
                   num_each_class_fold, fold_set, out_of_fold_set,
                   fold_key_mapping, train_key_mapping,
                   fold_key_mappings, train_key_mappings>>
    /\ UNCHANGED othersOfPart

Next == Prepare \/ FoldIteration \/ FoldRaises \/ Return

Spec == Init /\ [][Next]_vars

(***************************************************************************)
(* The scenario of 10 cancer and 10 non-cancer patients with one finding   *)
(* each, 3 crops, 5 folds and fold_fraction 0.2, in three arrangements of  *)
(* the dict.                                                               *)
(***************************************************************************)
ScenarioMarkers ==
    { [i \in 1..20 |-> IF i <= 10 THEN 1 ELSE 0],
      [i \in 1..20 |-> IF i <= 10 THEN 0 ELSE 1],
      [i \in 1..20 |-> i % 2] }

InitScenario ==
    /\ \E markers \in ScenarioMarkers :
          InitPart([i \in 1..20 |->
                      [patient |-> i, marker |-> markers[i], findings |-> 1]],
                   3, 5, [num |-> 1, den |-> 5])
    /\ InitCrop0
    /\ InitDataset0
    /\ InitCropper0
    /\ InitTrain0
    /\ InitRotate0
    /\ InitKgh0

\* SpecScenario follows the five folds one at a time.  FoldBody is lines
\* 166-209, and NextFold the step of the loop without the lists of lines
\* 211-212, which no line of the loop reads: the fold drawn is examined in
\* fold_key_mapping and train_key_mapping.  The four locals of the loop body
\* are assigned anew by every pass before it reads them (lines 171, 181,
\* 199, 205), so NextFold forgets them.
FoldBody ==
    /\ pc = "loop"
    /\ k < num_folds
    /\ DrawFold
    /\ pc' = "append"
    /\ UNCHANGED <<cropped_images, num_crops, num_folds, fold_fraction,
                   patient_images, k, num_each_class_fold,
                   fold_key_mappings, train_key_mappings>>
    /\ UNCHANGED othersOfPart

NextFold ==
    /\ pc = "append"
    /\ k' = k + 1
    /\ pc' = "loop"
    /\ fold_set' = {}
    /\ out_of_fold_set' = {}
    /\ fold_key_mapping' = EmptyMap
    /\ train_key_mapping' = EmptyMap
    /\ UNCHANGED <<cropped_images, num_crops, num_folds, fold_fraction,
                   patient_images, num_each_class_fold,
                   fold_key_mappings, train_key_mappings>>
    /\ UNCHANGED othersOfPart

NextScenario == Prepare \/ FoldBody \/ NextFold \/ Return

SpecScenario == InitScenario /\ [][NextScenario]_vars

(***************************************************************************)
(* crop_from_center, for a list of one image (the list comprehension of    *)
(* lines 82-88 treats every image alike).  Axes are numbered 1, 2, 3 for   *)
(* i, j, k.  call = [size, ijk, dims, offset]: the image's size, the voxel *)
(* center ijk_coordinates[0], (width, height, depth) and (i_offset,        *)
(* j_offset).                                                              *)
(***************************************************************************)
\* variant: width / 2 as an integer division before the ceiling
CeilHalfTruncated(width) == width \div 2

\* int(np.ceil(width / 2)) of lines 83, 85, 87
CeilHalf(width) == (width + 1) \div 2

\* the offset lines 82-87 subtract on an axis: none on the k axis
AxisOffset(c, axis) == IF axis = 3 THEN 0 ELSE c.offset[axis]

\* variant: the rounded-up half below the center as well
SliceLowCeilHalf(c, axis) ==
    (c.ijk[axis] - AxisOffset(c, axis)) - CeilHalf(c.dims[axis])

\* lower bound of the slice: lines 82, 84, 86
SliceLow(c, axis) ==
    (c.ijk[axis] - AxisOffset(c, axis)) - c.dims[axis] \div 2

\* upper bound of the slice: lines 82-83, 84-85, 86-87
SliceHigh(c, axis) ==
    (c.ijk[axis] - AxisOffset(c, axis)) + CeilHalf(c.dims[axis])

\* variant: the bound taken as written, with no clamping
SliceIndexUnclamped(bound, size) == bound

\* image[low:high] of line 82: a slice bound as Python's slice.indices(size)
\* resolves it, a negative bound counted from the end and both clamped to
\* 0..size
SliceIndex(bound, size) ==
    IF bound < 0
    THEN (IF bound + size < 0 THEN 0 ELSE bound + size)
    ELSE (IF bound > size THEN size ELSE bound)

\* image[low:high, low:high, low:high] of lines 82-87: the voxel range taken
\* on each axis
Slices(c) ==
    [axis \in 1..3 |->
        [start |-> SliceIndex(SliceLow(c, axis), c.size[axis]),
         stop |-> SliceIndex(SliceHigh(c, axis), c.size[axis])]]

SliceEmpty(sl) == sl.stop <= sl.start

Calls ==
    [size : {<<MaxSize, MaxSize, MaxSize>>},
     ijk : (-1..MaxSize) \X (-1..MaxSize) \X (-1..MaxSize),
     dims : (1..MaxWidth) \X (1..MaxWidth) \X (1..MaxWidth),
     offset : (-MaxOffset..MaxOffset) \X (-MaxOffset..MaxOffset)]

\* The voxel index of the center of a volume, as line 258 obtains the index
\* of a fiducial placed there.  The center of n voxels lies between the
\* voxels (n - 1) div 2 and n div 2 when n is even: "upper" takes n div 2 on
\* every axis (the physical center rounded to the nearest index, halves
\* upwards), "lower" takes (n - 1) div 2 on every axis.
CenterIndex(size, rounding) ==
    [axis \in 1..3 |->
        IF rounding = "upper" THEN size[axis] \div 2
        ELSE (size[axis] - 1) \div 2]

\* the 64 x 64 x 32 volume cropped at its center to 32 x 32 x 3, offsets 0
ExampleCalls ==
    { [size |-> <<64, 64, 32>>,
       ijk |-> CenterIndex(<<64, 64, 32>>, rounding),
       dims |-> <<32, 32, 3>>,
       offset |-> <<0, 0>>] : rounding \in {"upper", "lower"} }

InitCrop ==
    /\ InitPart(<<>>, MaxCrops, MaxFolds, [num |-> 1, den |-> 5])
    /\ call \in Calls \cup ExampleCalls
    /\ crop = [state |-> "idle"]
    /\ InitDataset0
    /\ InitCropper0
    /\ InitTrain0
    /\ InitRotate0
    /\ InitKgh0

\* lines 82-89: the call returns the crop, the voxel ranges Slices(call)
CropFromCenter ==
    /\ crop.state = "idle"
    /\ \A axis \in 1..3 : ~SliceEmpty(Slices(call)[axis])
    /\ crop' = [state |-> "returned", slices |-> Slices(call)]
    /\ UNCHANGED call
    /\ UNCHANGED othersOfCrop

\* lines 82-88: a range that is empty on some axis selects no image, the
\* indexing raises and so does the call
CropFromCenterRaises ==
    /\ crop.state = "idle"
    /\ \E axis \in 1..3 : SliceEmpty(Slices(call)[axis])
    /\ crop' = [state |-> "raised"]
    /\ UNCHANGED call
    /\ UNCHANGED othersOfCrop

NextCrop == CropFromCenter \/ CropFromCenterRaises

SpecCrop == InitCrop /\ [][NextCrop]_vars

(***************************************************************************)
(* image_cropper.  A row of the findings table is [patient_id, ClinSig];   *)
(* resampled_images[patient_id] is "" when one of the patient's three      *)
(* images is blank.  What crop_from_center or rotated_crop gives for one   *)
(* crop depends on the images: [size_ok, zero] says whether the three      *)
(* modalities have the size (crop_width, crop_height, crop_depth) and      *)
(* whether the first modality is all zero.  A crop stored is               *)
(* [finding, crop_num, content, size_ok], finding the number of its row    *)
(* and content "image", "zero" (an all-zero first modality) or "noise".    *)
(* crop_dict is the dict crops in insertion order, a sequence of           *)
(* [key, patches].                                                         *)
(***************************************************************************)
CropOutcomes == [size_ok : BOOLEAN, zero : BOOLEAN]

\* the values of num_crops_per_image tried
CropsPerImage == {1, 2}

\* lines 283-285
CropKey(is_train, patient) ==
    IF is_train THEN <<patient.patient_id, patient.ClinSig>>
    ELSE <<patient.patient_id>>

\* variant: only a wrong size marks the key
MarksInvalidWrongSizeOnly(outcome) == ~outcome.size_ok

\* lines 269-275: the crops that put the key into invalid_keys
MarksInvalid(outcome) == ~outcome.size_ok \/ outcome.zero

\* line 269-272: the crops that `continue` skips
Skipped(is_train, outcome) == is_train /\ ~outcome.size_ok

\* variant: an all-zero crop is kept as it is
ReplacedByNoiseNever(is_train, outcome) == FALSE

\* lines 276-280: the crops replaced by np.random.rand volumes
ReplacedByNoise(is_train, outcome) == ~is_train /\ outcome.zero

\* the crop stored for an outcome: line 279 builds the noise with the size
\* (crop_width, crop_height, crop_depth)
CropStored(is_train, finding, crop_num, outcome) ==
    IF ReplacedByNoise(is_train, outcome)
    THEN [finding |-> finding, crop_num |-> crop_num,
          content |-> "noise", size_ok |-> TRUE]
    ELSE [finding |-> finding, crop_num |-> crop_num,
          content |-> IF outcome.zero THEN "zero" ELSE "image",
          size_ok |-> outcome.size_ok]

\* lines 288-295, the element appended: with the label in train mode only
Element(is_train, stored, cancer_marker) ==
    IF is_train THEN [crop |-> stored, cancer_marker |-> cancer_marker]
    ELSE [crop |-> stored]

KeysOf(cr) == { cr[i].key : i \in 1..Len(cr) }

\* variant: the entry of the key is replaced
StoreCropOverwrites(cr, key, element) ==
    IF key \in KeysOf(cr)
    THEN [i \in 1..Len(cr) |->
            IF cr[i].key = key
            THEN [cr[i] EXCEPT !.patches = <<element>>]
            ELSE cr[i]]
    ELSE Append(cr, [key |-> key, patches |-> <<element>>])

\* lines 286-295
StoreCrop(cr, key, element) ==
    IF key \in KeysOf(cr)
    THEN [i \in 1..Len(cr) |->
            IF cr[i].key = key
            THEN [cr[i] EXCEPT !.patches = Append(@, element)]
            ELSE cr[i]]
    ELSE Append(cr, [key |-> key, patches |-> <<element>>])

\* lines 261-295: the crops crop_num, crop_num + 1, ... of one finding, from
\* the dict cr and the set inv; gives the two after the loop
RECURSIVE CropLoop(_, _, _, _, _, _, _)
CropLoop(cr, inv, is_train, finding, patient, outcomes, crop_num) ==
    IF crop_num >= Len(outcomes) THEN [crops |-> cr, invalid_keys |-> inv]
    ELSE LET outcome == outcomes[crop_num + 1]
             key == CropKey(is_train, patient)
             inv2 == IF is_train /\ MarksInvalid(outcome)
                     THEN inv \cup {key} ELSE inv
             cr2 == IF Skipped(is_train, outcome) THEN cr
                    ELSE StoreCrop(cr, key,
                           Element(is_train,
                                   CropStored(is_train, finding, crop_num,
                                              outcome),
                                   patient.ClinSig))
         IN  CropLoop(cr2, inv2, is_train, finding, patient, outcomes,
                      crop_num + 1)

\* lines 297-298: crops.pop(key) for every invalid key
PopInvalid(cr, inv) == SelectSeq(cr, LAMBDA entry : entry.key \notin inv)

\* The findings tables tried: at most MaxRows rows, the patients numbered in
\* order of first appearance.  A table of the test set has no ClinSig
\* column: its rows carry 0.
CropperTables(is_train) ==
    { t \in UNION { [1..n -> FindingRows] : n \in 1..MaxRows } :
        /\ \A i \in 1..Len(t) :
              \/ t[i].patient_id = 1
              \/ \E j \in 1..(i - 1) : t[j].patient_id >= t[i].patient_id - 1
        /\ is_train \/ \A i \in 1..Len(t) : t[i].ClinSig = 0 }

InitCropper ==
    /\ InitPart(<<>>, MaxCrops, MaxFolds, [num |-> 1, den |-> 5])
    /\ InitCrop0
    /\ InitDataset0
    /\ InitTrain0
    /\ InitRotate0
    /\ InitKgh0
    /\ train \in BOOLEAN
    /\ findings_dataframe \in CropperTables(train)
    /\ resampled_images \in [1..MaxPatients -> {"", "images"}]
    /\ num_crops_per_image \in CropsPerImage
    /\ crop_dict = <<>>
    /\ invalid_keys = {}
    /\ rows_done = 0
    /\ bad_findings = {}
    /\ cropper_pc = "rows"

\* lines 244-295: one row of the table
CropFinding ==
    /\ cropper_pc = "rows"
    /\ rows_done < Len(findings_dataframe)
    /\ rows_done' = rows_done + 1
    /\ LET patient == findings_dataframe[rows_done + 1]
       IN  IF resampled_images[patient.patient_id] = ""
           THEN UNCHANGED <<crop_dict, invalid_keys, bad_findings>>
           ELSE \E outcomes \in [1..num_crops_per_image -> CropOutcomes] :
                  LET after == CropLoop(crop_dict, invalid_keys, train, rows_done + 1,
                                        patient, outcomes, 0)
                  IN  /\ crop_dict' = after.crops
                      /\ invalid_keys' = after.invalid_keys
                      /\ bad_findings' =
                            IF \E n \in 1..num_crops_per_image :
                                  ~outcomes[n].size_ok \/ outcomes[n].zero
                            THEN bad_findings \cup {rows_done + 1}
                            ELSE bad_findings
    /\ UNCHANGED <<findings_dataframe, resampled_images, train,
                   num_crops_per_image, cropper_pc>>
    /\ UNCHANGED othersOfCropper

\* lines 297-299: every invalid key is in the dict
CropperReturn ==
    /\ cropper_pc = "rows"
    /\ rows_done = Len(findings_dataframe)
    /\ invalid_keys \subseteq KeysOf(crop_dict)
    /\ crop_dict' = PopInvalid(crop_dict, invalid_keys)
    /\ cropper_pc' = "returned"
    /\ UNCHANGED <<findings_dataframe, resampled_images, train,
                   num_crops_per_image, invalid_keys, rows_done,
                   bad_findings>>
    /\ UNCHANGED othersOfCropper

\* line 298: crops.pop(key) raises KeyError for a key that is not in the dict
CropperRaises ==
    /\ cropper_pc = "rows"
    /\ rows_done = Len(findings_dataframe)
    /\ ~(invalid_keys \subseteq KeysOf(crop_dict))
    /\ cropper_pc' = "raised"
    /\ UNCHANGED <<findings_dataframe, resampled_images, train,
                   num_crops_per_image, crop_dict, invalid_keys,
                   rows_done, bad_findings>>
    /\ UNCHANGED othersOfCropper

NextCropper == CropFinding \/ CropperReturn \/ CropperRaises

SpecCropper == InitCropper /\ [][NextCropper]_vars

(***************************************************************************)
(* ProstateImages.  self holds the attributes of one object; the mapping   *)
(* list is 1-based here, so mapping[map_num] of the code is                *)
(* self.mapping[self.map_num + 1].  An image is a function from Voxels to  *)
(* intensities, voxel 1 being the voxel [0, 0, 0] of the array.  A         *)
(* normalized intensity is a quotient num / den of floating-point numbers, *)
(* kept here as the kind of its value: "finite", "nan" (0 / 0) or "inf"    *)
(* (a non-zero number over 0).                                             *)
(***************************************************************************)
Voxels == 1..MaxVoxels

Images == [Voxels -> {0, 1}]

\* the value of num / den in floating point
Kind(num, den) ==
    IF den # 0 THEN "finite" ELSE IF num = 0 THEN "nan" ELSE "inf"

RECURSIVE SumUpTo(_, _)
SumUpTo(image, n) ==
    IF n = 0 THEN 0 ELSE image[n] + SumUpTo(image, n - 1)

\* MaxVoxels * (image[v] - mean of the image)
Centered(image, v) == MaxVoxels * image[v] - SumUpTo(image, MaxVoxels)

\* MaxVoxels^2 * MaxVoxels * (variance of the image): 0 for a constant image
Spread(image) ==
    SumUpTo([v \in Voxels |-> Centered(image, v) * Centered(image, v)],
            MaxVoxels)

\* line 379: sitk.NormalizeImageFilter, (voxel - mean) / sigma with the mean
\* and sigma of the image itself
NormalizeImageFilter(image) ==
    [v \in Voxels |-> Kind(Centered(image, v), Spread(image))]

\* line 383: (image - mean_tensor) / std_tensor, voxel by voxel
TensorNormalize(image, mean_tensor, std_tensor) ==
    [v \in Voxels |-> Kind(image[v] - mean_tensor[v], std_tensor[v])]

\* lines 378-383
Normalize(obj, image) ==
    IF obj.normalize_strategy = 1 THEN NormalizeImageFilter(image)
    ELSE TensorNormalize(image, obj.mean_tensor, obj.std_tensor)

\* line 386: np.isnan(output["image"][0, 0, 0])
IsReplaced(image) == image[1] = "nan"

\* line 387: np.random.rand(3, 32, 32), numbers in [0, 1)
Noise == [v \in Voxels |-> "finite"]

\* sorted(m)[0] of lines 335 and 348; IndexError when m is empty
FirstKey(m) == CHOOSE key \in DOMAIN m : \A other \in DOMAIN m : key <= other

\* line 353
Resolve(obj, index) ==
    obj.mapping[obj.map_num + 1][index + obj.first_index]

\* The key mappings tried: n keys lo, lo + 1, ... (the partitioner writes
\* the keys 0..n-1) to the patch indices n, n + 1, ...
KeyMappings ==
    { [key \in lo..(lo + n - 1) |-> key - lo + n] :
        lo \in 0..1, n \in 0..MaxLen }

NoTensor == [v \in Voxels |-> 0]

\* lines 308-341: the objects after construction.  The mapping lists are
\* tried with normalize_strategy 1, the mean and std tensors with one
\* mapping list, and test-mode objects with both.
TrainObjects ==
    { [constructed |-> TRUE, train |-> TRUE, normalize_strategy |-> 1,
       mean_tensor |-> NoTensor, std_tensor |-> NoTensor,
       mapping |-> mapping, map_num |-> 0,
       first_index |-> FirstKey(mapping[1]),
       length |-> Cardinality(DOMAIN mapping[1])] :
        mapping \in { ms \in [1..MaxFolds -> KeyMappings] :
                        DOMAIN ms[1] # {} } }
    \cup
    { [constructed |-> TRUE, train |-> TRUE, normalize_strategy |-> 2,
       mean_tensor |-> mean, std_tensor |-> std,
       mapping |-> [n \in 1..MaxFolds |-> [key \in 0..1 |-> key]],
       map_num |-> 0, first_index |-> 0, length |-> 2] :
        mean \in Images, std \in Images }

TestObjects ==
    { [constructed |-> TRUE, train |-> FALSE, normalize_strategy |-> 1,
       mean_tensor |-> NoTensor, std_tensor |-> NoTensor,
       mapping |-> <<>>, map_num |-> 0,
       first_index |-> first, length |-> n] :
        first \in 0..1, n \in 1..MaxLen }
    \cup
    { [constructed |-> TRUE, train |-> FALSE, normalize_strategy |-> 2,
       mean_tensor |-> mean, std_tensor |-> std,
       mapping |-> <<>>, map_num |-> 0,
       first_index |-> 0, length |-> 1] :
        mean \in Images, std \in Images }

InitDataset ==
    /\ InitPart(<<>>, MaxCrops, MaxFolds, [num |-> 1, den |-> 5])
    /\ InitCrop0
    /\ InitCropper0
    /\ InitTrain0
    /\ InitRotate0
    /\ InitKgh0
    /\ self \in TrainObjects \cup TestObjects
    /\ output = [op |-> "init"]

\* variant: the length of the mapping left is kept
SwitchedKeepsLength(obj, new_map_num) ==
    [obj EXCEPT
        !.map_num = new_map_num,
        !.first_index = FirstKey(obj.mapping[new_map_num + 1])]

\* lines 347-349: the object after the three assignments
Switched(obj, new_map_num) ==
    [obj EXCEPT
        !.map_num = new_map_num,
        !.first_index = FirstKey(obj.mapping[new_map_num + 1]),
        !.length = Cardinality(DOMAIN obj.mapping[new_map_num + 1])]

\* lines 346-349, for the map numbers of the list
ChangeMapNum ==
    /\ output.op # "raised"
    /\ self.train
    /\ \E new_map_num \in 0..(Len(self.mapping) - 1) :
          /\ DOMAIN self.mapping[new_map_num + 1] # {}
          /\ self' = Switched(self, new_map_num)
          /\ output' = [op |-> "change_map_num", arg |-> new_map_num]
    /\ UNCHANGED othersOfDataset

\* lines 347-348: sorted(...)[0] of an empty mapping raises IndexError, after
\* map_num was assigned
ChangeMapNumRaises ==
    /\ output.op # "raised"
    /\ self.train
    /\ \E new_map_num \in 0..(Len(self.mapping) - 1) :
          /\ DOMAIN self.mapping[new_map_num + 1] = {}
          /\ self' = [self EXCEPT !.map_num = new_map_num]
          /\ output' = [op |-> "raised", arg |-> new_map_num]
    /\ UNCHANGED othersOfDataset

\* lines 351-390, for the indices 0..len - 1 a data loader asks for; the
\* file read has the intensities image and, in train mode, the label cancer
\* in its name
GetItem ==
    /\ output.op # "raised"
    /\ \E index \in 0..(self.length - 1), image \in Images, cancer \in {0, 1} :
          LET resolved == IF self.train THEN Resolve(self, index)
                          ELSE self.first_index + index
              normalized == Normalize(self, image)
              result == [op |-> "getitem", arg |-> index, index |-> resolved,
                         noise |-> IsReplaced(normalized),
                         image |-> IF IsReplaced(normalized) THEN Noise
                                   ELSE normalized]
          IN  output' = IF self.train
                        THEN result @@ [cancer |-> cancer]
                        ELSE result
    /\ UNCHANGED self
    /\ UNCHANGED othersOfDataset

NextDataset == ChangeMapNum \/ ChangeMapNumRaises \/ GetItem

SpecDataset == InitDataset /\ [][NextDataset]_vars

(***************************************************************************)
(* k_fold_cross_validation and train_model.  A model object is a number,   *)
(* weights[object] its weights: the sequence of the training passes        *)
(* <<fold, epoch>> applied to the state dict loaded at line 593, so that   *)
(* two objects have equal weights exactly when the same passes were        *)
(* applied to them.  The labels of a data set are [pos, neg], the numbers  *)
(* of samples of class 1 and of class 0; what a pass predicts for them is  *)
(* a confusion matrix [tn, fp, fn, tp].  A score is a quotient num / den;  *)
(* den = 0 is NaN.  k_fold and train_call hold the locals of the two       *)
(* functions.                                                              *)
(***************************************************************************)
\* all_actual and all_preds of one pass over a data set (lines 486-490 and
\* 522-526), as the confusion matrix of the hard predictions
ConfusionMatrices(labels) ==
    { [tn |-> tn, fp |-> labels.neg - tn, fn |-> labels.pos - tp, tp |-> tp] :
        tn \in 0..labels.neg, tp \in 0..labels.pos }

\* f1_score of lines 495 and 530: 2 tp / (2 tp + fp + fn), 0 when there is
\* no positive label and no positive prediction
F1Score(cm) ==
    IF 2 * cm.tp + cm.fp + cm.fn = 0 THEN [num |-> 0, den |-> 1]
    ELSE [num |-> 2 * cm.tp, den |-> 2 * cm.tp + cm.fp + cm.fn]

\* auc(roc_curve(...)) of lines 496-497 and 531-532 for hard predictions:
\* the area under (0,0), (fpr, tpr), (1,1), that is (tpr + 1 - fpr) / 2;
\* NaN when a class has no sample
Auc(cm) ==
    [num |-> cm.tp * (cm.tn + cm.fp) + cm.tn * (cm.tp + cm.fn),
     den |-> 2 * (cm.tp + cm.fn) * (cm.tn + cm.fp)]

\* line 457
ZeroAuc == [num |-> 0, den |-> 1]

\* a > b on floats: false when one of them is NaN
Greater(a, b) ==
    /\ a.den # 0
    /\ b.den # 0
    /\ a.num * b.den > b.num * a.den

\* variant: an epoch that equals the best AUC replaces the best as well
ImprovesOrTies(auc_eval_last, best) ==
    /\ auc_eval_last.den # 0
    /\ best.den # 0
    /\ auc_eval_last.num * best.den >= best.num * auc_eval_last.den

\* line 534
Improves(auc_eval_last, best) == Greater(auc_eval_last, best)

\* variant: the name is bound to the same object
CopyReference(heap, object) == [heap |-> heap, object |-> object]

\* copy.deepcopy of line 541: a new object with the same weights
DeepCopy(heap, object) ==
    [heap |-> Append(heap, heap[object]), object |-> Len(heap) + 1]

\* lines 459-493: the optimizer steps of one epoch change the weights of
\* the object trained, in place
Trained(heap, object, fold, epoch) ==
    [heap EXCEPT ![object] = Append(@, <<fold, epoch>>)]

\* lines 450-457: the locals of train_model when the loop starts; the names
\* of lines 535-541 are not bound yet
NewTrainCall(object) ==
    [model |-> object, epoch |-> 0,
     f1_train |-> <<>>, auc_train |-> <<>>,
     f1_eval |-> <<>>, auc_eval |-> <<>>, conf_matrices |-> <<>>,
     best_auc |-> ZeroAuc, bound |-> FALSE,
     auc_train_of_best_model |-> ZeroAuc,
     f1_train_of_best_model |-> ZeroAuc,
     conf_matrix |-> <<>>, best_f1 |-> ZeroAuc, best_model |-> 0,
     returned |-> FALSE]

\* lines 332 and 331: a sample provider after construction, with the number
\* of key mappings of its list
NewProvider(mappings) == [map_num |-> 0, mappings |-> mappings]

\* variant: the provider stays at the mapping it has
ChangedMapNumKept(provider, new_map_num) == provider

\* lines 346-347, called at lines 604 and 605
ChangedMapNum(provider, new_map_num) ==
    [provider EXCEPT !.map_num = new_map_num]

\* line 348: self.mapping[self.map_num] of a list that short raises
\* IndexError
MapNumRaises(provider, new_map_num) == new_map_num >= provider.mappings

\* lines 587-596: the locals of k_fold_cross_validation before the loop;
\* train_data and val_data are the labels of the samples the two providers
\* serve, train_provider and val_provider the provider objects
NewKFold(k_low, k_high, epochs, train_data, val_data, mappings) ==
    [k_low |-> k_low, k_high |-> k_high, epochs |-> epochs,
     train_data |-> train_data, val_data |-> val_data,
     train_provider |-> NewProvider(mappings),
     val_provider |-> NewProvider(mappings),
     k |-> k_low, model |-> 1, models |-> <<>>,
     auc_train_avg |-> <<>>, f1_train_avg |-> <<>>,
     auc_eval_avg |-> <<>>, f1_eval_avg |-> <<>>,
     result |-> <<>>]

\* label sets in which one class has no sample
SingleClass == { [pos |-> 1, neg |-> 0], [pos |-> 0, neg |-> 1] }

\* The runs tried: one fold of up to MaxEpochs epochs validated on MaxVal
\* samples of each class; up to MaxFolds folds of one epoch validated on
\* one sample of each class, the providers holding MaxFolds mappings or one
\* less; and one fold of one epoch in which the training labels or the
\* validation labels have a single class.
KFoldCalls ==
    { NewKFold(0, 1, epochs, [pos |-> 1, neg |-> 1],
               [pos |-> MaxVal, neg |-> MaxVal], MaxFolds) :
        epochs \in 0..MaxEpochs }
    \cup
    { NewKFold(k_low, k_high, 1, [pos |-> 1, neg |-> 1],
               [pos |-> 1, neg |-> 1], mappings) :
        k_low \in 0..1, k_high \in 0..MaxFolds,
        mappings \in {MaxFolds - 1, MaxFolds} }
    \cup
    { NewKFold(0, 1, 1, labels, [pos |-> 1, neg |-> 1], MaxFolds) :
        labels \in SingleClass }
    \cup
    { NewKFold(0, 1, 1, [pos |-> 1, neg |-> 1], labels, MaxFolds) :
        labels \in SingleClass }

InitTrain ==
    /\ InitPart(<<>>, MaxCrops, MaxFolds, [num |-> 1, den |-> 5])
    /\ InitCrop0
    /\ InitDataset0
    /\ InitCropper0
    /\ InitRotate0
    /\ InitKgh0
    /\ k_fold \in KFoldCalls
    /\ train_call = NewTrainCall(1)
    /\ weights = << <<>> >>
    /\ train_pc = "fold"

\* lines 597-606 and 448-457: a fold starts, the two providers are pointed
\* at its mappings and train_model is called with the object named model
StartFold ==
    /\ train_pc = "fold"
    /\ k_fold.k < k_fold.k_high
    /\ ~MapNumRaises(k_fold.train_provider, k_fold.k)
    /\ ~MapNumRaises(k_fold.val_provider, k_fold.k)
    /\ k_fold' = [k_fold EXCEPT
            !.train_provider = ChangedMapNum(@, k_fold.k),
            !.val_provider = ChangedMapNum(@, k_fold.k)]
    /\ train_call' = NewTrainCall(k_fold.model)
    /\ train_pc' = "train"
    /\ UNCHANGED weights
    /\ UNCHANGED othersOfTrain

\* lines 604-605: the list of a provider has no mapping k; map_num is
\* assigned (line 347) before line 348 raises IndexError
StartFoldRaises ==
    /\ train_pc = "fold"
    /\ k_fold.k < k_fold.k_high
    /\ \/ /\ MapNumRaises(k_fold.train_provider, k_fold.k)
          /\ k_fold' = [k_fold EXCEPT
                  !.train_provider = ChangedMapNum(@, k_fold.k)]
       \/ /\ ~MapNumRaises(k_fold.train_provider, k_fold.k)
          /\ MapNumRaises(k_fold.val_provider, k_fold.k)
          /\ k_fold' = [k_fold EXCEPT
                  !.train_provider = ChangedMapNum(@, k_fold.k),
                  !.val_provider = ChangedMapNum(@, k_fold.k)]
    /\ train_pc' = "index_error"
    /\ UNCHANGED <<train_call, weights>>
    /\ UNCHANGED othersOfTrain

\* lines 458-498: the training pass of an epoch
TrainingPass ==
    /\ train_pc = "train"
    /\ train_call.epoch < k_fold.epochs
    /\ \E cm \in ConfusionMatrices(k_fold.train_data) :
          train_call' = [train_call EXCEPT
                            !.f1_train = Append(@, F1Score(cm)),
                            !.auc_train = Append(@, Auc(cm))]
    /\ weights' = Trained(weights, train_call.model, k_fold.k,
                          train_call.epoch + 1)
    /\ train_pc' = "validate"
    /\ UNCHANGED k_fold
    /\ UNCHANGED othersOfTrain

\* lines 499-542: the validation pass of the epoch and the comparison with
\* the best AUC so far
ValidationPass ==
    /\ train_pc = "validate"
    /\ \E cm \in ConfusionMatrices(k_fold.val_data) :
          LET done == [train_call EXCEPT
                          !.f1_eval = Append(@, F1Score(cm)),
                          !.auc_eval = Append(@, Auc(cm)),
                          !.conf_matrices = Append(@, cm),
                          !.epoch = @ + 1]
              copy == DeepCopy(weights, train_call.model)
          IN  IF Improves(Auc(cm), train_call.best_auc)
              THEN /\ train_call' = [done EXCEPT
                          !.bound = TRUE,
                          !.auc_train_of_best_model =
                              train_call.auc_train[Len(train_call.auc_train)],
                          !.f1_train_of_best_model =
                              train_call.f1_train[Len(train_call.f1_train)],
                          !.conf_matrix = cm,
                          !.best_auc = Auc(cm),
                          !.best_f1 = F1Score(cm),
                          !.best_model = copy.object]
                   /\ weights' = copy.heap
              ELSE /\ train_call' = done
                   /\ UNCHANGED weights
    /\ train_pc' = "train"
    /\ UNCHANGED k_fold
    /\ UNCHANGED othersOfTrain

\* lines 561-562 and 606-613: train_model returns its six values, the fold
\* stores them and the loop goes on
TrainReturn ==
    /\ train_pc = "train"
    /\ train_call.epoch = k_fold.epochs
    /\ train_call.bound
    /\ train_call' = [train_call EXCEPT !.returned = TRUE]
    /\ k_fold' = [k_fold EXCEPT
            !.model = train_call.best_model,
            !.auc_train_avg = Append(@, train_call.auc_train_of_best_model),
            !.f1_train_avg = Append(@, train_call.f1_train_of_best_model),
            !.auc_eval_avg = Append(@, train_call.best_auc),
            !.f1_eval_avg = Append(@, train_call.best_f1),
            !.models = Append(@, train_call.best_model),
            !.k = @ + 1]
    /\ train_pc' = "fold"
    /\ UNCHANGED weights
    /\ UNCHANGED othersOfTrain

\* line 562: best_model was never assigned, the return statement raises
\* UnboundLocalError, which k_fold_cross_validation does not catch
TrainRaises ==
    /\ train_pc = "train"
    /\ train_call.epoch = k_fold.epochs
    /\ ~train_call.bound
    /\ train_pc' = "raised"
    /\ UNCHANGED <<k_fold, train_call, weights>>
    /\ UNCHANGED othersOfTrain

\* lines 615-632: list(zip(models, scores)), scores the list of the four
\* score lists
KFoldReturn ==
    /\ train_pc = "fold"
    /\ k_fold.k >= k_fold.k_high
    /\ LET scores == <<k_fold.auc_train_avg, k_fold.f1_train_avg,
                       k_fold.auc_eval_avg, k_fold.f1_eval_avg>>
           shorter == IF Len(k_fold.models) < Len(scores)
                      THEN Len(k_fold.models) ELSE Len(scores)
       IN  k_fold' = [k_fold EXCEPT
              !.result = [i \in 1..shorter |-> <<k_fold.models[i], scores[i]>>]]
    /\ train_pc' = "returned"
    /\ UNCHANGED <<train_call, weights>>
    /\ UNCHANGED othersOfTrain

NextTrain ==
    \/ StartFold
    \/ StartFoldRaises
    \/ TrainingPass
    \/ ValidationPass
    \/ TrainReturn
    \/ TrainRaises
    \/ KFoldReturn

SpecTrain == InitTrain /\ [][NextTrain]_vars

(***************************************************************************)
(* rotated_crop and the loops of its two callers, image_cropper and        *)
(* create_kgh_patient_crops.  A patch is the image it was cut from with    *)
(* the rotation angle and the offsets of the call that made it; a crop is  *)
(* the list of the patches of one crop number, in the order they are made. *)
(* The degree lists are cut to MaxDegree magnitudes, one unit apart (5, 10,*)
(* .., 25 in image_cropper, 0..25 in create_kgh_patient_crops).            *)
(***************************************************************************)
\* lines 246-247: the images of a finding
Modalities == <<"t2", "adc", "bval">>

\* lines 717-727: the order of the three calls
KghModalities == <<"bval", "adc", "t2">>

\* line 240
Magnitudes == [i \in 1..MaxDegree |-> i]

\* line 241: [-degree for degree in degrees] + degrees
ImageCropperDegrees == [i \in 1..MaxDegree |-> -Magnitudes[i]] \o Magnitudes

\* line 656: [i for i in range(26)]
KghDegrees == [i \in 1..(MaxDegree + 1) |-> i - 1]

\* np.random.randint(low, high) of lines 111-112: low <= n < high
RandInt(low, high) == low..(high - 1)

\* lines 108-115: every image of the list is rotated by the one degree
\* drawn and cropped at the one pair of offsets drawn
RotatedCrop(images, degree, i_offset, j_offset) ==
    [idx \in 1..Len(images) |->
        [image |-> images[idx], degree |-> degree,
         i_offset |-> i_offset, j_offset |-> j_offset]]

\* lines 263 and 701-710: crop number 0, no rotation, offsets 0
CenterCrop(images) == RotatedCrop(images, 0, 0, 0)

BuilderCalls ==
    [name : {"image_cropper", "create_kgh_patient_crops"},
     num_crops : 1..MaxCrops]

InitRotate ==
    /\ InitPart(<<>>, MaxCrops, MaxFolds, [num |-> 1, den |-> 5])
    /\ InitCrop0
    /\ InitDataset0
    /\ InitCropper0
    /\ InitTrain0
    /\ InitKgh0
    /\ builder \in BuilderCalls
    /\ degrees = IF builder.name = "image_cropper"
                 THEN ImageCropperDegrees ELSE KghDegrees
    /\ rotated = [crop_num |-> 0,
                  crop |-> IF builder.name = "image_cropper"
                           THEN CenterCrop(Modalities)
                           ELSE CenterCrop(KghModalities)]

\* lines 261-266: a crop number >= 1 of image_cropper, one call of
\* rotated_crop with the three images of the finding
ImageCropperRotatedCrop ==
    /\ builder.name = "image_cropper"
    /\ rotated.crop_num + 1 < builder.num_crops
    /\ \E degree \in Range(degrees), i_offset \in RandInt(-MaxShift, MaxShift),
          j_offset \in RandInt(-MaxShift, MaxShift) :
          rotated' = [crop_num |-> rotated.crop_num + 1,
                      crop |-> RotatedCrop(Modalities, degree,
                                           i_offset, j_offset)]
    /\ UNCHANGED <<builder, degrees>>
    /\ UNCHANGED othersOfRotate

\* lines 716-727: one of the three calls of rotated_crop of a crop number
\* >= 1 of create_kgh_patient_crops, each with a list of one image
KghRotatedCrop ==
    /\ builder.name = "create_kgh_patient_crops"
    /\ LET starts == Len(rotated.crop) = Len(KghModalities)
           number == IF starts THEN rotated.crop_num + 1
                     ELSE rotated.crop_num
           made == IF starts THEN <<>> ELSE rotated.crop
       IN  /\ number < builder.num_crops
           /\ \E degree \in Range(degrees),
                 i_offset \in RandInt(-MaxShift, MaxShift),
                 j_offset \in RandInt(-MaxShift, MaxShift) :
                 rotated' =
                     [crop_num |-> number,
                      crop |-> made \o
                          RotatedCrop(<<KghModalities[Len(made) + 1]>>,
                                      degree, i_offset, j_offset)]
    /\ UNCHANGED <<builder, degrees>>
    /\ UNCHANGED othersOfRotate

NextRotate == ImageCropperRotatedCrop \/ KghRotatedCrop

SpecRotate == InitRotate /\ [][NextRotate]_vars

(***************************************************************************)
(* create_bval_kgh_patients of crop_kgh.py.  directories is what is left   *)
(* of the listing of line 8; an entry tells whether it is a directory,     *)
(* whether one of its files has "nrrd" in its name, whether it has a       *)
(* fiducial file, how many lines that file has, whether line 4 of the file *)
(* converts to a physical point and the voxel index of that point.  bval   *)
(* and written map the entries' names to images; an image is a resampled   *)
(* volume or a crop, with its size.                                        *)
(***************************************************************************)
\* the size of a volume after resample_image (line 25), as in the example
\* of ExampleCalls
KghVolume == <<64, 64, 32>>

\* line 32: crop_from_center(..., 32, 32, 3)
KghDims == <<32, 32, 3>>

\* line 31: the voxel index of the fiducial: well inside the volume, close
\* to its border and outside of it
KghFiducials == { <<32, 32, 16>>, <<60, 32, 16>>, <<80, 32, 16>> }

\* line 32: the arguments of the crop_from_center call
KghCall(ijk) ==
    [size |-> KghVolume, ijk |-> ijk, dims |-> KghDims, offset |-> <<0, 0>>]

\* line 25
Resampled == [kind |-> "resampled", size |-> KghVolume]

\* line 32: the crop crop_from_center returns
Cropped(sl) ==
    [kind |-> "crop",
     size |-> [axis \in 1..3 |-> sl[axis].stop - sl[axis].start]]

\* the entries of the listing tried
KghListings ==
    { [is_dir |-> FALSE, nrrd |-> FALSE, has_fiducials |-> FALSE,
       lines |-> 0, parses |-> FALSE, ijk |-> <<0, 0, 0>>],
      [is_dir |-> TRUE, nrrd |-> FALSE, has_fiducials |-> FALSE,
       lines |-> 0, parses |-> FALSE, ijk |-> <<0, 0, 0>>],
      [is_dir |-> TRUE, nrrd |-> TRUE, has_fiducials |-> FALSE,
       lines |-> 0, parses |-> FALSE, ijk |-> <<0, 0, 0>>] }
    \cup
    { [is_dir |-> TRUE, nrrd |-> TRUE, has_fiducials |-> TRUE,
       lines |-> lines, parses |-> FALSE, ijk |-> <<0, 0, 0>>] :
        lines \in 0..MaxLines }
    \cup
    { [is_dir |-> TRUE, nrrd |-> TRUE, has_fiducials |-> TRUE,
       lines |-> lines, parses |-> TRUE, ijk |-> ijk] :
        lines \in 4..MaxLines, ijk \in KghFiducials }

\* lines 23-35: the try block for one entry: whether bval[directory] was
\* assigned, the image it holds when the block is left and whether line 33
\* wrote it
TryBlock(d) ==
    IF ~d.has_fiducials
    THEN \* line 24 raises before line 25
         [assigned |-> FALSE, image |-> Resampled, wrote |-> FALSE]
    ELSE IF d.lines < 4
    THEN \* the loop of lines 26-32 never reaches idx = 3
         [assigned |-> TRUE, image |-> Resampled, wrote |-> TRUE]
    ELSE IF ~d.parses
    THEN \* lines 28-31 raise, line 34 catches
         [assigned |-> TRUE, image |-> Resampled, wrote |-> FALSE]
    ELSE IF \E axis \in 1..3 : SliceEmpty(Slices(KghCall(d.ijk))[axis])
    THEN \* line 32 raises, line 34 catches
         [assigned |-> TRUE, image |-> Resampled, wrote |-> FALSE]
    ELSE [assigned |-> TRUE, image |-> Cropped(Slices(KghCall(d.ijk))),
          wrote |-> TRUE]

\* dict[key] = value
Assigned(dict, key, value) ==
    [n \in DOMAIN dict \cup {key} |-> IF n = key THEN value ELSE dict[n]]

InitKgh ==
    /\ InitPart(<<>>, MaxCrops, MaxFolds, [num |-> 1, den |-> 5])
    /\ InitCrop0
    /\ InitDataset0
    /\ InitCropper0
    /\ InitTrain0
    /\ InitRotate0
    /\ \E n \in 1..MaxDirs : \E listing \in [1..n -> KghListings] :
          directories = [i \in 1..n |-> [name |-> i] @@ listing[i]]
    /\ bval = EmptyMap
    /\ written = EmptyMap
    /\ kgh_pc = "loop"

\* lines 11-35: one entry of the listing
KghDirectory ==
    /\ kgh_pc = "loop"
    /\ directories # <<>>
    /\ directories' = Tail(directories)
    /\ LET directory == Head(directories)
           block == TryBlock(directory)
       IN  IF ~directory.is_dir \/ ~directory.nrrd
           THEN UNCHANGED <<bval, written>>
           ELSE /\ bval' = IF block.assigned
                           THEN Assigned(bval, directory.name, block.image)
                           ELSE bval
                /\ written' = IF block.wrote
                              THEN Assigned(written, directory.name,
                                            block.image)
                              ELSE written
    /\ UNCHANGED kgh_pc
    /\ UNCHANGED othersOfKgh

\* line 37
KghReturn ==
    /\ kgh_pc = "loop"
    /\ directories = <<>>
    /\ kgh_pc' = "returned"
    /\ UNCHANGED <<directories, bval, written>>
    /\ UNCHANGED othersOfKgh

NextKgh == KghDirectory \/ KghReturn

SpecKgh == InitKgh /\ [][NextKgh]_vars

(***************************************************************************)
(* Properties of the fold partitioner                                      *)
(***************************************************************************)
NumFoldsStored == Len(fold_key_mappings)

\* the locals of the loop body hold a fold drawn
FoldDrawn == pc = "append" \/ fold_key_mappings # <<>>

\* the patient (of the findings table) a patch index belongs to
PatientOfPatch(i) == patient_images[i + 1].patient

\* the patient indices (line 158) whose patches a mapping holds
PatientIndicesIn(mapping) == { i \div num_crops : i \in Range(mapping) }

CancerIn(mapping) ==
    { p \in PatientIndicesIn(mapping) : KeyMarker(p) = 1 }

NonCancerIn(mapping) ==
    { p \in PatientIndicesIn(mapping) : KeyMarker(p) = 0 }

PatchesOfMarker(mapping, marker) ==
    { i \in Range(mapping) : patient_images[i + 1].marker = marker }

\* C1: for every fold stored by one call, the patch indices of the fold's
\* validation mapping and those of its training mapping are disjoint.
C1_FoldAndTrainDisjoint ==
    /\ Len(train_key_mappings) = NumFoldsStored
    /\ \A f \in 1..NumFoldsStored :
          Range(fold_key_mappings[f]) \cap Range(train_key_mappings[f]) = {}

C1_Witness ==
    /\ pc = "done"
    /\ \E f \in 1..NumFoldsStored :
          /\ Range(fold_key_mappings[f]) # {}
          /\ Range(train_key_mappings[f]) # {}

\* C2: no patient of the findings table has patches both in a fold's
\* validation mapping and in the same fold's training mapping.
C2_NoPatientStraddles ==
    \A f \in 1..NumFoldsStored :
        { PatientOfPatch(i) : i \in Range(fold_key_mappings[f]) }
          \cap { PatientOfPatch(i) : i \in Range(train_key_mappings[f]) } = {}

\* C3 as claimed: the validation mappings of two different folds of one call
\* share no patch index.
C3_ValidationFoldsDisjoint ==
    \A f \in 1..NumFoldsStored, g \in 1..NumFoldsStored :
        f # g =>
          Range(fold_key_mappings[f]) \cap Range(fold_key_mappings[g]) = {}

\* C3 as amended: within each fold's validation mapping every patch index
\* appears at most once (two different keys never map to the same index);
\* the mappings of different folds may share indices.
C3_IndexOncePerFold ==
    \A f \in 1..NumFoldsStored :
        Cardinality(Range(fold_key_mappings[f]))
          = Cardinality(DOMAIN fold_key_mappings[f])

C3_Witness ==
    /\ NumFoldsStored = 2
    /\ Cardinality(DOMAIN fold_key_mappings[1]) >= 2
    /\ Range(fold_key_mappings[1]) \cap Range(fold_key_mappings[2]) # {}
    /\ fold_key_mappings[1] # fold_key_mappings[2]

\* C4: in the scenario every fold drawn has exactly 2 cancer and 2
\* non-cancer patients (6 patches per class) in its validation mapping, and
\* all 8 other cancer patients and exactly 8 non-cancer patients (24 + 24
\* patches) in its training mapping.
C4_ScenarioFoldSizes ==
    FoldDrawn =>
        /\ Cardinality(CancerIn(fold_key_mapping)) = 2
        /\ Cardinality(NonCancerIn(fold_key_mapping)) = 2
        /\ Cardinality(PatchesOfMarker(fold_key_mapping, 1)) = 6
        /\ Cardinality(PatchesOfMarker(fold_key_mapping, 0)) = 6
        /\ Cardinality(DOMAIN fold_key_mapping) = 12
        /\ CancerIn(train_key_mapping)
             = CancerPatients \ CancerIn(fold_key_mapping)
        /\ Cardinality(CancerIn(train_key_mapping)) = 8
        /\ Cardinality(NonCancerIn(train_key_mapping)) = 8
        /\ Cardinality(PatchesOfMarker(train_key_mapping, 1)) = 24
        /\ Cardinality(PatchesOfMarker(train_key_mapping, 0)) = 24
        /\ Cardinality(DOMAIN train_key_mapping) = 48

C4_Witness ==
    /\ pc = "append"
    /\ k = 4
    /\ Cardinality(CancerPatients) = 10
    /\ Cardinality(NonCancerPatients) = 10
    /\ Cardinality(DOMAIN train_key_mapping) = 48

ValidationPerClass(n) ==
    FoldDrawn =>
        /\ Cardinality(CancerIn(fold_key_mapping)) = n
        /\ Cardinality(NonCancerIn(fold_key_mapping)) = n

\* C5 as claimed: every fold's validation mapping holds round(f * n)
\* patients of each class, n the number of cancer patients.
C5_ValidationSizeRounded ==
    ValidationPerClass(
        NumEachClassFoldRounded(fold_fraction, Cardinality(CancerPatients)))

\* C5 as amended: every fold's validation mapping holds floor(f * n)
\* patients of each class: the integer x with x <= f * n < x + 1.
C5_ValidationSizeTruncated ==
    FoldDrawn =>
        \E x \in 0..Cardinality(CancerPatients) :
            /\ x * fold_fraction.den
                 <= fold_fraction.num * Cardinality(CancerPatients)
            /\ fold_fraction.num * Cardinality(CancerPatients)
                 < (x + 1) * fold_fraction.den
            /\ Cardinality(CancerIn(fold_key_mapping)) = x
            /\ Cardinality(NonCancerIn(fold_key_mapping)) = x

\* a fold drawn where f * n has a fractional part above one half
C5_Witness ==
    /\ FoldDrawn
    /\ 2 * ((fold_fraction.num * Cardinality(CancerPatients))
               % fold_fraction.den) > fold_fraction.den
    /\ NonCancerIn(train_key_mapping) # {}

\* C6: the training mapping of every fold drawn holds every cancer patient
\* index that is not in the fold's validation mapping, and as many
\* non-cancer patient indices as cancer ones, none of them in the fold's
\* validation mapping.
C6_TrainAllCancerBalanced ==
    FoldDrawn =>
        /\ CancerPatients \ PatientIndicesIn(fold_key_mapping)
             \subseteq PatientIndicesIn(train_key_mapping)
        /\ Cardinality(NonCancerIn(train_key_mapping))
             = Cardinality(CancerIn(train_key_mapping))
        /\ PatientIndicesIn(train_key_mapping)
             \cap PatientIndicesIn(fold_key_mapping) = {}

\* a fold drawn whose training mapping leaves a non-cancer patient out
C6_Witness ==
    /\ FoldDrawn
    /\ CancerIn(train_key_mapping) # {}
    /\ NonCancerPatients \ (PatientIndicesIn(train_key_mapping)
                             \cup PatientIndicesIn(fold_key_mapping)) # {}

\* C7: the partitioner completes for any numbers of cancer and non-cancer
\* patients: no call ends in an error.
C7_PartitionerCompletes == pc # "error"

BlockOf(p) == (p * num_crops)..(p * num_crops + num_crops - 1)

BijectionOntoBlocks(mapping, selected) ==
    /\ DOMAIN mapping = 0..(num_crops * Cardinality(selected) - 1)
    /\ Range(mapping) = UNION { BlockOf(p) : p \in selected }
    /\ Cardinality(Range(mapping)) = Cardinality(DOMAIN mapping)

\* C8: every validation mapping and every training mapping is a bijection
\* from the keys 0..n-1 onto the union of the complete blocks of the
\* patient indices selected for it, n = num_crops * (number selected): so
\* are the two mappings of every fold drawn, and they are the ones stored.
C8_MappingsAreBijections ==
    /\ FoldDrawn =>
          /\ BijectionOntoBlocks(fold_key_mapping, fold_set)
          /\ BijectionOntoBlocks(train_key_mapping, out_of_fold_set)
    /\ fold_key_mappings # <<>> =>
          /\ fold_key_mappings[NumFoldsStored] = fold_key_mapping
          /\ train_key_mappings[NumFoldsStored] = train_key_mapping

C8_Witness ==
    /\ pc = "done"
    /\ num_crops >= 2
    /\ Cardinality(fold_set) >= 2
    /\ out_of_fold_set # {}
    /\ NumFoldsStored = num_folds

(***************************************************************************)
(* Properties of crop_from_center                                          *)
(***************************************************************************)
\* the window the claims name: [center - offset - floor(width / 2),
\* center - offset + ceil(width / 2)), ceil(width / 2) = width - floor(width / 2)
WindowLow(c, axis) ==
    c.ijk[axis] - AxisOffset(c, axis) - (c.dims[axis] \div 2)

WindowHigh(c, axis) ==
    c.ijk[axis] - AxisOffset(c, axis)
      + (c.dims[axis] - (c.dims[axis] \div 2))

WindowInside(c, axis) ==
    /\ 0 <= WindowLow(c, axis)
    /\ WindowHigh(c, axis) <= c.size[axis]

Extent(sl) == IF sl.stop > sl.start THEN sl.stop - sl.start ELSE 0

\* C9: when the window lies inside the image on every axis, the crop is the
\* window [center - offset - floor(w/2), center - offset + ceil(w/2)) on each
\* axis (offset 0 on k) and its shape is exactly (width, height, depth).
C9_CropIsWindow ==
    (crop.state # "idle" /\ \A axis \in 1..3 : WindowInside(call, axis)) =>
        /\ crop.state = "returned"
        /\ \A axis \in 1..3 :
              /\ crop.slices[axis].start = WindowLow(call, axis)
              /\ crop.slices[axis].stop = WindowHigh(call, axis)
              /\ Extent(crop.slices[axis]) = call.dims[axis]

C9_Witness ==
    /\ crop.state = "returned"
    /\ \A axis \in 1..3 : WindowInside(call, axis)
    /\ call.dims = <<3, 2, 1>>
    /\ call.offset = <<1, -1>>

\* C10 as claimed: crop_from_center never returns a clipped crop: a call
\* whose window reaches below 0 or beyond the image size on some axis fails,
\* so every crop returned has the shape (width, height, depth).
C10_NeverClipped ==
    crop.state = "returned" =>
        \A axis \in 1..3 : Extent(crop.slices[axis]) = call.dims[axis]

\* C10 as amended: crop_from_center checks no bound.  A window that starts
\* inside the image and reaches beyond its size on an axis is clipped to
\* the image there: the crop returned holds [low, size) on that axis, fewer
\* voxels than asked for.  The call can fail only when, on some axis, the
\* window starts outside the image (below 0 or at or beyond the size).
C10_ClippedNotRejected ==
    /\ crop.state = "returned" =>
          \A axis \in 1..3 :
              ( /\ 0 <= WindowLow(call, axis)
                /\ WindowLow(call, axis) < call.size[axis]
                /\ WindowHigh(call, axis) > call.size[axis] ) =>
                  /\ crop.slices[axis].start = WindowLow(call, axis)
                  /\ crop.slices[axis].stop = call.size[axis]
                  /\ Extent(crop.slices[axis]) < call.dims[axis]
    /\ crop.state = "raised" =>
          \E axis \in 1..3 :
              \/ WindowLow(call, axis) < 0
              \/ WindowLow(call, axis) >= call.size[axis]
    /\ (crop.state # "idle" /\ \A axis \in 1..3 :
            0 <= WindowLow(call, axis) /\ WindowLow(call, axis) < call.size[axis])
          => crop.state = "returned"

\* a crop returned clipped on the i axis only
C10_Witness ==
    /\ crop.state = "returned"
    /\ WindowHigh(call, 1) > call.size[1]
    /\ Extent(crop.slices[1]) >= 1
    /\ Extent(crop.slices[1]) < call.dims[1]
    /\ WindowInside(call, 2)
    /\ WindowInside(call, 3)

\* C11 as claimed: cropping the 64 x 64 x 32 volume at the voxel index of its
\* center to 32 x 32 x 3 with offsets (0, 0) selects the window
\* [16,48) x [16,48) x [14,17) and yields the shape (32, 32, 3).
C11_ExampleWindowAsStated ==
    (crop.state # "idle" /\ call \in ExampleCalls) =>
        /\ crop.state = "returned"
        /\ crop.slices = <<[start |-> 16, stop |-> 48],
                           [start |-> 16, stop |-> 48],
                           [start |-> 14, stop |-> 17]>>
        /\ \A axis \in 1..3 : Extent(crop.slices[axis]) = call.dims[axis]

\* C11 as amended: at the center index (32, 32, 16) the window selected is
\* [16,48) x [16,48) x [15,18); at (31, 31, 15) it is
\* [15,47) x [15,47) x [14,17); in both cases the shape is (32, 32, 3).
C11_ExampleWindow ==
    (crop.state # "idle" /\ call \in ExampleCalls) =>
        /\ crop.state = "returned"
        /\ call.ijk = <<32, 32, 16>> =>
              crop.slices = <<[start |-> 16, stop |-> 48],
                              [start |-> 16, stop |-> 48],
                              [start |-> 15, stop |-> 18]>>
        /\ call.ijk = <<31, 31, 15>> =>
              crop.slices = <<[start |-> 15, stop |-> 47],
                              [start |-> 15, stop |-> 47],
                              [start |-> 14, stop |-> 17]>>
        /\ call.ijk \in {<<32, 32, 16>>, <<31, 31, 15>>}
        /\ \A axis \in 1..3 : Extent(crop.slices[axis]) = call.dims[axis]

C11_Witness ==
    /\ crop.state = "returned"
    /\ call.size = <<64, 64, 32>>
    /\ call.ijk = <<32, 32, 16>>
    /\ call.dims = <<32, 32, 3>>
    /\ call.offset = <<0, 0>>

(***************************************************************************)
(* Properties of ProstateImages                                            *)
(***************************************************************************)
\* the mapping that map_num selects
ActiveMapping == self.mapping[self.map_num + 1]

\* C12: on a train-mode object, after change_map_num(k) has returned and
\* after any reads that follow it, map_num is k, len() is the number of keys
\* of mapping[k], and the read at logical index i returned the patch index
\* mapping[k][first_key + i], first_key the smallest key of mapping[k]: at
\* index 0 the patch index mapping[k][first_key].
C12_SwitchSelectsMapping ==
    (self.constructed /\ self.train /\ output.op # "raised") =>
        /\ output.op = "change_map_num" => self.map_num = output.arg
        /\ self.length = Cardinality(DOMAIN ActiveMapping)
        /\ self.first_index \in DOMAIN ActiveMapping
        /\ \A key \in DOMAIN ActiveMapping : self.first_index <= key
        /\ output.op = "getitem" =>
              /\ output.arg \in 0..(Cardinality(DOMAIN ActiveMapping) - 1)
              /\ output.index = ActiveMapping[self.first_index + output.arg]

\* a read at index 0 after a switch to mapping 1, which differs from mapping
\* 0 in its first key, in its length and in the patch index it gives
C12_Witness ==
    /\ self.constructed /\ self.train
    /\ output.op = "getitem"
    /\ output.arg = 0
    /\ self.map_num = 1
    /\ DOMAIN self.mapping[1] = 0..1
    /\ DOMAIN self.mapping[2] = {1}
    /\ output.index = self.mapping[2][1]
    /\ output.index # self.mapping[1][0]

\* C13: no read returns an image that holds a NaN or an infinity.
C13_ReadNeverNonFinite ==
    (self.constructed /\ output.op = "getitem") =>
        \A v \in Voxels : output.image[v] = "finite"

(***************************************************************************)
(* Properties of image_cropper                                             *)
(***************************************************************************)
\* the elements of all the entries of the dict
ElementsStored ==
    UNION { Range(crop_dict[i].patches) : i \in 1..Len(crop_dict) }

\* the rows of the table whose three images are all present
FindingsPresent ==
    { f \in 1..Len(findings_dataframe) :
        resampled_images[findings_dataframe[f].patient_id] # "" }

\* the findings with all images present that have the key of an entry
FindingsUnder(key) ==
    { f \in FindingsPresent : CropKey(train, findings_dataframe[f]) = key }

\* the crop numbers stored for a finding under an entry
CropNumsStored(entry, f) ==
    { entry.patches[n].crop.crop_num :
        n \in { m \in 1..Len(entry.patches) :
                  entry.patches[m].crop.finding = f } }

\* C14: in train mode the dict returned holds no crop of a finding that had
\* a crop of a wrong size or with an all-zero first modality, whichever of
\* its crops that was.
C14_InvalidFindingsExcluded ==
    (cropper_pc = "returned" /\ train) =>
        \A element \in ElementsStored :
            element.crop.finding \notin bad_findings

\* a dict returned with an entry, after two findings with two crops each of
\* which one was marked invalid
C14_Witness ==
    /\ cropper_pc = "returned"
    /\ train
    /\ num_crops_per_image = 2
    /\ Cardinality(FindingsPresent) = 2
    /\ Cardinality(bad_findings) = 1
    /\ invalid_keys # {}
    /\ crop_dict # <<>>

\* C15: in inference mode every finding whose images are all present has
\* exactly num_crops_per_image crops in the dict returned, the crop numbers
\* 0..num_crops_per_image - 1, under the key patient_id; an element is the
\* crop alone, without a label; no all-zero crop is stored, noise of the
\* size asked for stands in its place; crops of a wrong size are kept.
C15_InferenceKeepsEveryCrop ==
    (cropper_pc = "returned" /\ ~train) =>
        /\ \A f \in FindingsPresent :
              \E i \in 1..Len(crop_dict) :
                  /\ crop_dict[i].key = <<findings_dataframe[f].patient_id>>
                  /\ CropNumsStored(crop_dict[i], f)
                       = 0..(num_crops_per_image - 1)
                  /\ Cardinality({ n \in 1..Len(crop_dict[i].patches) :
                                     crop_dict[i].patches[n].crop.finding = f })
                       = num_crops_per_image
        /\ \A i \in 1..Len(crop_dict) : Len(crop_dict[i].key) = 1
        /\ \A element \in ElementsStored :
              /\ DOMAIN element = {"crop"}
              /\ element.crop.content \in {"image", "noise"}
              /\ element.crop.content = "noise" => element.crop.size_ok

\* a dict returned in inference mode with a noise volume and a crop of a
\* wrong size
C15_Witness ==
    /\ cropper_pc = "returned"
    /\ ~train
    /\ num_crops_per_image = 2
    /\ \E element \in ElementsStored : element.crop.content = "noise"
    /\ \E element \in ElementsStored : ~element.crop.size_ok

\* C16 as claimed: every entry of the dict returned holds exactly
\* num_crops_per_image patches.
C16_EntryHoldsNumCrops ==
    cropper_pc = "returned" =>
        \A i \in 1..Len(crop_dict) :
            Len(crop_dict[i].patches) = num_crops_per_image

\* C16 as amended: every entry of the dict returned holds
\* num_crops_per_image patches for each finding of the table stored under
\* its key (same patient and, in train mode, same label; all images
\* present), and there is at least one such finding.
C16_EntryHoldsCropsPerFinding ==
    cropper_pc = "returned" =>
        \A i \in 1..Len(crop_dict) :
            /\ FindingsUnder(crop_dict[i].key) # {}
            /\ Len(crop_dict[i].patches)
                 = num_crops_per_image
                     * Cardinality(FindingsUnder(crop_dict[i].key))
            /\ \A f \in FindingsUnder(crop_dict[i].key) :
                  CropNumsStored(crop_dict[i], f)
                    = 0..(num_crops_per_image - 1)

\* a dict returned in train mode with an entry of two findings
C16_Witness ==
    /\ cropper_pc = "returned"
    /\ train
    /\ num_crops_per_image = 2
    /\ \E i \in 1..Len(crop_dict) :
          /\ Cardinality(FindingsUnder(crop_dict[i].key)) = 2
          /\ Len(crop_dict[i].patches) = 4

\* C24: in train mode image_cropper returns normally for every findings
\* table, also when a finding marked invalid has no crop stored under its
\* key.
C24_CropperReturns ==
    train => cropper_pc # "raised"

(***************************************************************************)
(* Properties of train_model and k_fold_cross_validation                   *)
(***************************************************************************)
\* the weights the object trained had after the training pass of an epoch
\* of the current call: the passes after that epoch taken off
WeightsAfterEpoch(epoch) ==
    SubSeq(weights[train_call.model], 1,
           Len(weights[train_call.model]) - (train_call.epoch - epoch))

\* the best values of the call are those of the epoch
BestTakenFrom(epoch) ==
    /\ train_call.best_auc = train_call.auc_eval[epoch]
    /\ train_call.best_f1 = train_call.f1_eval[epoch]
    /\ train_call.conf_matrix = train_call.conf_matrices[epoch]
    /\ train_call.auc_train_of_best_model = train_call.auc_train[epoch]
    /\ train_call.f1_train_of_best_model = train_call.f1_train[epoch]
    /\ weights[train_call.best_model] = WeightsAfterEpoch(epoch)

\* the first epoch whose validation AUC no epoch of the call exceeds
FirstMaximum(epoch) ==
    /\ \A other \in 1..Len(train_call.auc_eval) :
          ~Greater(train_call.auc_eval[other], train_call.auc_eval[epoch])
    /\ \A earlier \in 1..(epoch - 1) :
          Greater(train_call.auc_eval[epoch], train_call.auc_eval[earlier])

\* C17: when train_model returns, the best validation AUC it returns is the
\* maximum of the validation AUCs of the epochs, and the model snapshot,
\* the confusion matrix, the train AUC, the train F1 and the validation F1
\* it returns are all those of the first epoch that attains the maximum.
C17_BestIsFirstMaximum ==
    (train_pc # "idle" /\ train_call.returned) =>
        \E epoch \in 1..Len(train_call.auc_eval) :
            /\ FirstMaximum(epoch)
            /\ BestTakenFrom(epoch)

\* a call returned after two epochs with the same validation AUC and
\* different confusion matrices
C17_Witness ==
    /\ train_pc # "idle"
    /\ train_call.returned
    /\ train_call.epoch = 2
    /\ train_call.auc_eval[1] = train_call.auc_eval[2]
    /\ train_call.conf_matrices[1] # train_call.conf_matrices[2]
    /\ train_call.f1_eval[1] # train_call.f1_eval[2]

\* C18: within a call of train_model, a step that leaves the name
\* best_model bound to the same snapshot leaves the snapshot's weights
\* unchanged: only an epoch with a new best AUC, which binds the name to a
\* new snapshot, changes what best_model holds.
C18_SnapshotKeptByLaterEpochs ==
    [][ ( /\ train_pc # "idle"
          /\ train_call.bound
          /\ train_call'.bound
          /\ train_call'.best_model = train_call.best_model )
        => weights'[train_call.best_model] = weights[train_call.best_model]
      ]_vars

\* the snapshot of epoch 1 after both passes of epoch 2, which did not
\* reach a new best AUC
C18_Witness ==
    /\ train_pc = "train"
    /\ train_call.bound
    /\ train_call.epoch = 2
    /\ weights[train_call.best_model] = WeightsAfterEpoch(1)
    /\ weights[train_call.model] = WeightsAfterEpoch(2)
    /\ weights[train_call.model] # weights[train_call.best_model]

\* C19: the weights of a model object in the list models of
\* k_fold_cross_validation never change once the object is in the list.
C19_StoredModelImmutable ==
    [][ train_pc # "idle" =>
          \A i \in 1..Len(k_fold.models) :
              weights'[k_fold.models[i]] = weights[k_fold.models[i]]
      ]_vars

\* C20: a train_model call with epochs = 1 always returns, with a snapshot
\* whose weights are those after epoch 1 and the AUC and F1 of that epoch.
C20_OneEpochReturnsSnapshot ==
    ( /\ train_pc # "idle"
      /\ k_fold.epochs = 1
      /\ train_call.epoch = 1
      /\ train_pc \in {"fold", "raised", "returned"} ) =>
        /\ train_pc # "raised"
        /\ train_call.returned
        /\ train_call.bound
        /\ weights[train_call.best_model] = WeightsAfterEpoch(1)
        /\ train_call.best_auc = train_call.auc_eval[1]
        /\ train_call.best_f1 = train_call.f1_eval[1]

\* the passes <<fold, epoch>> of a weights value come in increasing order,
\* none twice
PassesInOrder(w) ==
    \A i \in 1..Len(w) : \A j \in (i + 1)..Len(w) :
        \/ w[i][1] < w[j][1]
        \/ w[i][1] = w[j][1] /\ w[i][2] < w[j][2]

\* some object went through every epoch of the fold
FoldTrained(fold) ==
    \E object \in 1..Len(weights) :
        \A epoch \in 1..k_fold.epochs :
            \E i \in 1..Len(weights[object]) :
                weights[object][i] = <<fold, epoch>>

\* C21: k_fold_cross_validation trains the folds k_low, ..., k_high - 1 in
\* increasing order, each once: while train_model runs for fold k both
\* providers have map_num k; no object receives a pass twice or out of
\* order; a fold starts only when one model per earlier fold is stored and
\* k moves on by one only after the last epoch; when the function returns
\* every fold has been trained for all its epochs.
C21_FoldsInOrderOnOwnMapping ==
    /\ [](train_pc \in {"train", "validate"} =>
            /\ k_fold.train_provider.map_num = k_fold.k
            /\ k_fold.val_provider.map_num = k_fold.k
            /\ k_fold.k \in k_fold.k_low..(k_fold.k_high - 1))
    /\ [](train_pc # "idle" =>
            \A object \in 1..Len(weights) : PassesInOrder(weights[object]))
    /\ [](train_pc = "returned" =>
            \A fold \in k_fold.k_low..(k_fold.k_high - 1) : FoldTrained(fold))
    /\ [][ /\ (train_pc = "fold" /\ train_pc' = "train") =>
                k_fold.k = k_fold.k_low + Len(k_fold.models)
           /\ (train_pc # "idle" /\ k_fold'.k # k_fold.k) =>
                /\ k_fold'.k = k_fold.k + 1
                /\ train_call.epoch = k_fold.epochs
                /\ Len(k_fold'.models) = Len(k_fold.models) + 1
         ]_vars

\* the validation pass of the second fold of a run that started at fold 0
C21_Witness ==
    /\ train_pc = "validate"
    /\ k_fold.k_low = 0
    /\ k_fold.k = 1
    /\ k_fold.train_provider.map_num = 1
    /\ k_fold.val_provider.map_num = 1
    /\ Len(k_fold.models) = 1

\* labels with at least one sample of each class
BothClasses(labels) == labels.pos > 0 /\ labels.neg > 0

\* C23: train_model produces the AUC and the F1 of a pass only when the
\* labels accumulated for the pass hold both classes: for labels of a
\* single class no value is appended to the score lists.
C23_ScoresOnlyWithBothClasses ==
    train_pc # "idle" =>
        /\ ~BothClasses(k_fold.train_data) =>
              train_call.auc_train = <<>> /\ train_call.f1_train = <<>>
        /\ ~BothClasses(k_fold.val_data) =>
              train_call.auc_eval = <<>> /\ train_call.f1_eval = <<>>

\* C25: k_fold_cross_validation returns one entry per fold trained, the
\* entry of a fold pairing the model of the fold with the four scores of
\* the fold.
C25_EntryPerFoldWithOwnScores ==
    train_pc = "returned" =>
        /\ Len(k_fold.result) = Len(k_fold.models)
        /\ \A i \in 1..Len(k_fold.result) :
              k_fold.result[i] =
                  <<k_fold.models[i],
                    <<k_fold.auc_train_avg[i], k_fold.f1_train_avg[i],
                      k_fold.auc_eval_avg[i], k_fold.f1_eval_avg[i]>> >>

(***************************************************************************)
(* Properties of rotated_crop and its callers                              *)
(***************************************************************************)
\* how often a degree is in the list: np.random.choice draws every position
\* of the list with the same probability
Occurrences(list, d) == Cardinality({ i \in 1..Len(list) : list[i] = d })

\* C22: every call of rotated_crop receives a symmetric degree list: -d is
\* in the list as often as d, for every d of the list.
C22_DegreesSymmetric ==
    rotated.crop_num >= 1 =>
        \A i \in 1..Len(degrees) :
            Occurrences(degrees, -degrees[i]) = Occurrences(degrees, degrees[i])

\* C27: the patches of all modalities with one crop number have the same
\* rotation angle and the same offsets, in both builders.
C27_ModalitiesAligned ==
    \A i \in 1..Len(rotated.crop) : \A j \in 1..Len(rotated.crop) :
        /\ rotated.crop[i].degree = rotated.crop[j].degree
        /\ rotated.crop[i].i_offset = rotated.crop[j].i_offset
        /\ rotated.crop[i].j_offset = rotated.crop[j].j_offset

(***************************************************************************)
(* Properties of create_bval_kgh_patients                                  *)
(***************************************************************************)
\* a crop of the size asked for at line 32
FullCrop(image) == image.kind = "crop" /\ image.size = KghDims

\* C26: every image create_bval_kgh_patients writes to the crops directory
\* or leaves in the dictionary it returns is a 32 x 32 x 3 crop; no
\* resampled volume is written or left there.
C26_OnlyCropsKept ==
    /\ \A name \in DOMAIN bval : FullCrop(bval[name])
    /\ \A name \in DOMAIN written : FullCrop(written[name])
====
